---- MODULE Spec2Model ----
(***************************************************************************)
(* Baker Compliant AI: the inference queue (shared SQLite table), the      *)
(* worker-side queue broker, the GPU resource manager, the dispatcher's    *)
(* main loop and the side-effect tables, modelled from the Python source.  *)
(*                                                                         *)
(* The module holds four specifications over one set of variables:         *)
(*   Spec       the queue: both enqueue paths of the API service, worker   *)
(*              processes running get_next_request, the store's complete   *)
(*              and cleanup operations (FairSpec adds weak fairness of     *)
(*              the workers' steps)                                        *)
(*   GpuSpec    GPUResourceManager and its callers                         *)
(*   LoopSpec   InferenceService.start, the loop with the circuit breaker  *)
(*   UpsertSpec create_*_if_not_exists on users, custom_gpts and threads   *)
(* Each specification leaves the other components' variables unchanged.    *)
(***************************************************************************)
EXTENDS Integers, Sequences, FiniteSets, TLC

\* ------------------------------------------------------------------ bounds
MaxRequests == 2
MaxDay == 1
MaxSec == 1
MaxRaisedRun == 6
MaxStoreFailRun == 6
MaxRows == 4
MaxClock == 60
MaxWords == 3

\* self._cache_ttl = timedelta(seconds=30)
cache_ttl == 30

\* max_consecutive_errors = 5
max_consecutive_errors == 5

NULL == "NULL"
\* Python's None where a request (id) is expected: an Optional is the set of
\* at most one value.
None == {}
Some(v) == {v}
The(o) == CHOOSE v \in o : TRUE

\* ===================================================================== time
\* An instant of the UTC clock: a calendar day and a time of day.
Times == [day : 0..MaxDay, sec : 0..MaxSec]

TimeLess(a, b) == a.day < b.day \/ (a.day = b.day /\ a.sec < b.sec)

NextTime(t) == IF t.sec < MaxSec THEN [day |-> t.day, sec |-> t.sec + 1]
               ELSE [day |-> t.day + 1, sec |-> 0]

\* A stored timestamp is TEXT: "<date><sep><time>".  datetime.isoformat()
\* writes "YYYY-MM-DDTHH:MM:SS.ffffff"; SQLite's CURRENT_TIMESTAMP writes
\* "YYYY-MM-DD HH:MM:SS".
IsoFormat(t) == [date |-> t.day, sep |-> "T", time |-> t.sec]

CurrentTimestamp(t) == [date |-> t.day, sep |-> " ", time |-> t.sec]

\* started_at and completed_at are written (utcnow().isoformat()) and never
\* read by a query: the model keeps that they are set, not their value.
Stamp(t) == "set"

\* The instant a stored timestamp denotes.
ParseTime(s) == [day |-> s.date, sec |-> s.time]

\* Byte order of the separator characters: " " is 0x20, "T" is 0x54.
SepLess(a, b) == a = " " /\ b = "T"

\* SQLite compares TEXT values bytewise (BINARY collation): the date, then the
\* separator, then the time of day.
TextLess(a, b) ==
    \/ a.date < b.date
    \/ a.date = b.date /\ SepLess(a.sep, b.sep)
    \/ a.date = b.date /\ a.sep = b.sep /\ a.time < b.time

\* ==================================================================== state
VARIABLES
    now,          \* the UTC clock read by datetime.utcnow() / CURRENT_TIMESTAMP
    nextId,       \* the next fresh request id (uuid4 / randomblob: never reused)
    queue,        \* table inference_queue: request id -> row, or NoRow
    wpc,          \* per worker process: where its get_next_request call stands
    polled,       \* per worker: the id its poll returned (requests[0]["id"])
    request,      \* per worker: what its last get_next_request call returned
    claimWins,    \* history: per id, the claim calls that returned True
    lastCleanup,  \* history: days_old and the result of the last cleanup call
    passedClaim,  \* history: per id, the workers that went on past `if not claimed`
    lastComplete, \* history: the id and the result of the last complete_request call
    lastPoll      \* history: what the last poll of a worker found

\* GPUResourceManager
VARIABLES
    gpu_semaphore,          \* the value of asyncio.Semaphore(1)
    resource_acquired_at,   \* _resource_acquired_at: "None" or "set"
    current_holder,         \* _current_holder
    total_acquisitions,     \* _total_acquisitions
    gpc,                    \* per caller: idle, waiting in acquire, in a context body
    entry,                  \* per caller: the entry point of its acquire call
    acquired,               \* per caller: what its last acquire_resource returned
    released,               \* per caller: how its last release_resource call ended
    permitOwners,           \* history: callers whose semaphore acquire succeeded
                            \* and whose permit was not released since
    waitFor,                \* history, per caller: how its last wait_for ended
    chat_result,            \* what the last _process_chat_request returned
    adapter_invoked,        \* history: chat_agent.process_chat has been called
    store_call_holding      \* history: the dispatcher made a store call while
                            \* it held the permit

\* InferenceService.start
VARIABLES
    running,              \* self.running
    lpc,                  \* where the loop stands
    consecutive_errors,   \* the local counter of start()
    error_delay,          \* the local error_delay of the last except block
    requests_processed,   \* self.stats["requests_processed"]
    raisedRun,            \* history: the finished cycles in a row that raised
    storeFailRun,         \* history: the cycles in a row whose store call failed
    exitCause             \* history: why the loop ended

\* users, custom_gpts, threads
VARIABLES
    tables,        \* table name -> the set of its rows
    nextRowid,     \* SQLite's rowid for the next inserted row
    ucall,         \* per worker: its create_*_if_not_exists call in progress
    uresult,       \* per worker: what its last call returned, and why
    succeeded,     \* history: (table, id) of the calls that returned True
    finished,      \* history: (table, id) of the calls that returned
    createdRows    \* history: every row as it was inserted

queueVars == <<now, nextId, queue, wpc, polled, request, claimWins, lastCleanup,
               passedClaim, lastComplete, lastPoll>>

gpuVars == <<gpu_semaphore, resource_acquired_at, current_holder,
             total_acquisitions, gpc, entry, acquired, released, permitOwners,
             waitFor, chat_result, adapter_invoked, store_call_holding>>

loopVars == <<running, lpc, consecutive_errors, error_delay, requests_processed,
              raisedRun, storeFailRun, exitCause>>

upsertVars == <<tables, nextRowid, ucall, uresult, succeeded, finished, createdRows>>

\* QueueService.get_queue_statistics
VARIABLES
    clock,          \* datetime.utcnow(), in seconds
    stats_cache,    \* self._stats_cache: empty, or the snapshot it holds
    cache_updated,  \* self._cache_updated
    spc,            \* per caller: where its get_queue_statistics call stands
    call_now,       \* per caller: the local `now` of its call
    fetched,        \* per caller: the local `stats` of its call
    lastStats       \* history: what the last call returned, and when

statsVars == <<clock, stats_cache, cache_updated, spc, call_now, fetched, lastStats>>

\* ChatAgent.process_chat
VARIABLES
    chat_response   \* the response of the last process_chat call, with its inputs

agentVars == <<chat_response>>

Ids == 1..MaxRequests

Workers == {"w1", "w2"}

\* Priorities the callers pass: below, inside and above the range [1,10].
PriorityInputs == {0, 5, 11}

NoRow == [status |-> "absent"]

Terminal == {"completed", "failed"}

Inserted == 1..(nextId - 1)

\* ---------------------------------------------------------- API: enqueue
\* max(1, min(10, priority))
ClampPriority(p) == IF p < 1 THEN 1 ELSE IF p > 10 THEN 10 ELSE p

NewRow(request_type, priority, created_at) ==
    [status |-> "pending", request_type |-> request_type,
     priority |-> priority, created_at |-> created_at,
     started_at |-> NULL, completed_at |-> NULL, response_content |-> NULL,
     response_metadata |-> NULL, error_message |-> NULL]

\* api QueueService.enqueue_chat_request: created_at is utcnow().isoformat().
\* The clock moves on with every insert: no two rows are inserted at the
\* same instant.
EnqueueChat(p) ==
    /\ nextId <= MaxRequests
    /\ now \in Times
    /\ queue' = [queue EXCEPT ![nextId] = NewRow("chat", ClampPriority(p), IsoFormat(now))]
    /\ nextId' = nextId + 1
    /\ now' = NextTime(now)
    /\ UNCHANGED <<wpc, polled, request, claimWins, lastCleanup,
                   passedClaim, lastComplete, lastPoll>>
    /\ UNCHANGED <<gpuVars, loopVars, upsertVars, statsVars, agentVars>>

\* The request_type a caller of create_inference_request passes.
RequestTypeInputs == {"document_analysis"}

\* api DatabaseAdapter.create_inference_request: the priority is stored as
\* given and created_at is SQLite's CURRENT_TIMESTAMP.
CreateInferenceRequest(ty, p) ==
    /\ nextId <= MaxRequests
    /\ now \in Times
    /\ queue' = [queue EXCEPT ![nextId] = NewRow(ty, p, CurrentTimestamp(now))]
    /\ nextId' = nextId + 1
    /\ now' = NextTime(now)
    /\ UNCHANGED <<wpc, polled, request, claimWins, lastCleanup,
                   passedClaim, lastComplete, lastPoll>>
    /\ UNCHANGED <<gpuVars, loopVars, upsertVars, statsVars, agentVars>>

\* Time passes.
Tick ==
    /\ now \in Times
    /\ now' = NextTime(now)
    /\ UNCHANGED <<nextId, queue, wpc, polled, request, claimWins, lastCleanup,
                   passedClaim, lastComplete, lastPoll>>
    /\ UNCHANGED <<gpuVars, loopVars, upsertVars, statsVars, agentVars>>

\* ------------------------------------------------------------ store: poll
PendingIds(q) == {r \in Ids : q[r].status = "pending"}

\* ORDER BY priority ASC, created_at ASC
RowLess(a, b) ==
    \/ a.priority < b.priority
    \/ a.priority = b.priority /\ TextLess(a.created_at, b.created_at)

\* A poll without the status condition.
PollFirstAnyStatus(q) ==
    LET rows == {r \in Ids : q[r].status # "absent"}
    IN {r \in rows : \A o \in rows : ~RowLess(q[o], q[r])}

\* poll_inference_queue(limit=1): the ids the SELECT may return first.
PollFirst(q) == {r \in PendingIds(q) : \A o \in PendingIds(q) : ~RowLess(q[o], q[r])}

\* The columns of the row that poll_inference_queue selects.
PollColumns == {"id", "request_type", "message_id", "custom_gpt_id", "user_id",
                "priority", "status", "created_at", "started_at", "completed_at",
                "input_data"}

\* ----------------------------------------------------------- store: claim
\* A claim without the status condition: WHERE id = ?
ClaimMatchesAnyStatus(row) == row.status # "absent"

\* UPDATE ... WHERE id = ? AND status = 'pending'
ClaimMatches(row) == row.status = "pending"

\* A claim that sets the status and leaves started_at alone.
ClaimUpdateWithoutStartedAt(q, id, t) ==
    [q EXCEPT ![id] = IF ClaimMatches(@) THEN [@ EXCEPT !.status = "processing"] ELSE @]

\* UPDATE inference_queue SET status = 'processing', started_at = ?
ClaimUpdate(q, id, t) ==
    [q EXCEPT ![id] = IF ClaimMatches(@)
                      THEN [@ EXCEPT !.status = "processing", !.started_at = Stamp(t)]
                      ELSE @]

\* claim_inference_request returns cursor.rowcount > 0.
ClaimResult(q, id) == ClaimMatches(q[id])

\* -------------------------------------------------------- store: complete
EmptyData == [empty |-> TRUE]

SomeData == [empty |-> FALSE, content |-> "content", metadata |-> "metadata"]

\* What the callers of complete_request pass: (success, response_data,
\* error_message).
CompleteInputs == {<<TRUE, SomeData, NULL>>, <<TRUE, EmptyData, NULL>>,
                   <<FALSE, EmptyData, "error">>}

\* A completion without the status condition: WHERE id = ?
CompleteMatchesAnyStatus(row) == row.status # "absent"

\* UPDATE ... WHERE id = ? AND status = 'processing'
CompleteMatches(row) == row.status = "processing"

\* response_data.get("content") if response_data else None
ResponseContent(data) == IF data.empty THEN NULL ELSE data.content

\* json.dumps(response_data.get("metadata", {}) if response_data else {})
ResponseMetadata(data) == IF data.empty THEN "{}" ELSE data.metadata

CompleteUpdate(q, id, success, data, err, t) ==
    [q EXCEPT ![id] =
        IF CompleteMatches(@)
        THEN [@ EXCEPT !.status = IF success THEN "completed" ELSE "failed",
                       !.completed_at = Stamp(t),
                       !.response_content = ResponseContent(data),
                       !.response_metadata = ResponseMetadata(data),
                       !.error_message = err]
        ELSE @]

\* complete_inference_request returns cursor.rowcount > 0, and
\* complete_request returns that value.
CompleteResult(q, id) == IF CompleteMatches(q[id]) THEN "True" ELSE "False"

\* ------------------------------------------------- broker: get_next_request
\* request["request_data"] on the polled row: a dict lookup.
RequestDataLookup == IF "request_data" \in PollColumns THEN "value" ELSE "KeyError"

\* What get_next_request returns once its claim succeeded: the KeyError is
\* caught by the outer except, which returns None.
ClaimedReturn(id) == IF RequestDataLookup = "KeyError" THEN None ELSE Some(id)

\* The poll finds no pending row: get_next_request returns None and
\* _process_inference_request returns.
PollEmpty(w) ==
    /\ wpc[w] = "idle"
    /\ PollFirst(queue) = {}
    /\ request' = [request EXCEPT ![w] = None]
    /\ lastPoll' = "empty"
    /\ UNCHANGED <<now, nextId, queue, wpc, polled, claimWins, lastCleanup,
                   passedClaim, lastComplete>>
    /\ UNCHANGED <<gpuVars, loopVars, upsertVars, statsVars, agentVars>>

\* The poll returns a row.
PollRow(w) ==
    /\ wpc[w] = "idle"
    /\ \E r \in PollFirst(queue) : polled' = [polled EXCEPT ![w] = Some(r)]
    /\ wpc' = [wpc EXCEPT ![w] = "polled"]
    /\ lastPoll' = "row"
    /\ UNCHANGED <<now, nextId, queue, request, claimWins, lastCleanup,
                   passedClaim, lastComplete>>
    /\ UNCHANGED <<gpuVars, loopVars, upsertVars, statsVars, agentVars>>

\* The claim of the polled row and the rest of get_next_request; then
\* _process_inference_request, which returns when it got no request.
ClaimPolled(w) ==
    /\ wpc[w] = "polled"
    /\ LET id == The(polled[w])
           claimed == ClaimResult(queue, id)
           ret == IF claimed THEN ClaimedReturn(id) ELSE None
       IN /\ queue' = ClaimUpdate(queue, id, now)
          /\ claimWins' = [claimWins EXCEPT ![id] = IF claimed THEN @ + 1 ELSE @]
          /\ passedClaim' = [passedClaim EXCEPT ![id] = IF claimed THEN @ \cup {w} ELSE @]
          /\ request' = [request EXCEPT ![w] = ret]
          /\ wpc' = [wpc EXCEPT ![w] = IF ret = None THEN "idle" ELSE "processing"]
    /\ polled' = [polled EXCEPT ![w] = None]
    /\ UNCHANGED <<now, nextId, lastCleanup, lastComplete, lastPoll>>
    /\ UNCHANGED <<gpuVars, loopVars, upsertVars, statsVars, agentVars>>

\* QueueService.complete_request -> complete_inference_request, called for
\* any request id with any outcome.
CompleteRequest(id, in) ==
    /\ queue' = CompleteUpdate(queue, id, in[1], in[2], in[3], now)
    /\ lastComplete' = [id |-> id, returned |-> CompleteResult(queue, id)]
    /\ UNCHANGED <<now, nextId, wpc, polled, request, claimWins, lastCleanup,
                   passedClaim, lastPoll>>
    /\ UNCHANGED <<gpuVars, loopVars, upsertVars, statsVars, agentVars>>

\* ---------------------------------------------------------- store: cleanup
\* DELETE ... WHERE status IN ('completed','failed') AND created_at < ?
CleanupMatches(row, cutoffText) ==
    row.status \in Terminal /\ TextLess(row.created_at, cutoffText)

\* datetime.utcnow() - timedelta(days=days_old)
CutoffDate(t, days_old) == [day |-> t.day - days_old, sec |-> t.sec]

\* QueueService.cleanup_old_requests(days_old): the bound parameter is
\* cutoff_date.isoformat(); the result is cursor.rowcount.
CleanupOldRequests(days_old) ==
    LET cutoff == CutoffDate(now, days_old)
        gone == {r \in Ids : CleanupMatches(queue[r], IsoFormat(cutoff))}
    IN /\ queue' = [r \in Ids |-> IF r \in gone THEN NoRow ELSE queue[r]]
       /\ lastCleanup' = [days_old |-> days_old, returned |-> Cardinality(gone)]
       /\ UNCHANGED <<now, nextId, wpc, polled, request, claimWins,
                      passedClaim, lastComplete, lastPoll>>
       /\ UNCHANGED <<gpuVars, loopVars, upsertVars, statsVars, agentVars>>

QueueInit ==
    /\ now = [day |-> 0, sec |-> 0]
    /\ nextId = 1
    /\ queue = [r \in Ids |-> NoRow]
    /\ wpc = [w \in Workers |-> "idle"]
    /\ polled = [w \in Workers |-> None]
    /\ request = [w \in Workers |-> None]
    /\ claimWins = [r \in Ids |-> 0]
    /\ lastCleanup = [days_old |-> 0, returned |-> 0]
    /\ passedClaim = [r \in Ids |-> {}]
    /\ lastComplete = [id |-> 0, returned |-> "None"]
    /\ lastPoll = "None"

QueueNext ==
    \/ \E p \in PriorityInputs : EnqueueChat(p)
    \/ \E ty \in RequestTypeInputs, p \in PriorityInputs : CreateInferenceRequest(ty, p)
    \/ Tick
    \/ \E w \in Workers : PollEmpty(w)
    \/ \E w \in Workers : PollRow(w)
    \/ \E w \in Workers : ClaimPolled(w)
    \/ \E id \in Ids, in \in CompleteInputs : CompleteRequest(id, in)
    \/ \E d \in 0..MaxDay : CleanupOldRequests(d)

\* ================================================== GPU resource manager
\* The tasks of one inference process that use its GPUResourceManager: the
\* dispatcher enters InferenceService._gpu_resource, other callers call
\* acquire_resource / release_resource or enter acquire_context.
Callers == {"dispatcher", "c1", "c2"}

EntryPoints(c) ==
    IF c = "dispatcher" THEN {"_gpu_resource"}
    ELSE {"acquire_resource", "acquire_context"}

\* def log_performance_metric(metric_type, value, unit, request_id=None,
\*                            context=None)
LogPerformanceMetricParams == {"metric_type", "value", "unit", "request_id", "context"}

LogPerformanceMetricRequired == {"metric_type", "value", "unit"}

\* A keyword call of log_performance_metric: Python raises TypeError for an
\* unexpected keyword or a missing required argument.
LogPerformanceMetric(kwargs) ==
    IF kwargs \subseteq LogPerformanceMetricParams
       /\ LogPerformanceMetricRequired \subseteq kwargs
    THEN "returned" ELSE "TypeError"

\* The keywords acquire_resource and release_resource pass.
AcquireLogKwargs == {"operation", "duration_ms", "metadata"}

ReleaseLogKwargs == {"operation", "duration_ms", "metadata"}

\* A semaphore that never blocks.
SemaphoreAlwaysFree(value) == TRUE

\* asyncio.Semaphore.acquire proceeds without waiting iff the value is > 0.
SemaphoreFree(value) == value > 0

\* What acquire_resource returns once the semaphore was acquired: the
\* TypeError of the metric call is caught by `except Exception`, which
\* returns False.
AcquiredReturn == IF LogPerformanceMetric(AcquireLogKwargs) = "TypeError" THEN "False" ELSE "True"

\* Where a caller stands once acquire_resource has returned: back in its own
\* code, or in the body of the context manager it entered.
AfterAcquire(e) == IF e = "acquire_resource" THEN "idle" ELSE "body"

\* A caller starts acquire_resource (directly or through a context manager)
\* and waits in asyncio.wait_for(self._gpu_semaphore.acquire(), timeout).
AcquireResource(c, e) ==
    /\ gpc[c] = "idle"
    /\ gpc' = [gpc EXCEPT ![c] = "waiting"]
    /\ entry' = [entry EXCEPT ![c] = e]
    /\ acquired' = [acquired EXCEPT ![c] = "None"]
    /\ UNCHANGED <<gpu_semaphore, resource_acquired_at, current_holder,
                   total_acquisitions, permitOwners, released,
                   waitFor, chat_result, adapter_invoked, store_call_holding>>
    /\ UNCHANGED <<queueVars, loopVars, upsertVars, statsVars, agentVars>>

\* The semaphore is acquired: the tracking fields are written, the metric
\* call is made, and acquire_resource returns.
SemaphoreAcquired(c) ==
    /\ gpc[c] = "waiting"
    /\ SemaphoreFree(gpu_semaphore)
    /\ gpu_semaphore' = gpu_semaphore - 1
    /\ resource_acquired_at' = "set"
    /\ current_holder' = c
    /\ total_acquisitions' = total_acquisitions + 1
    /\ permitOwners' = permitOwners \cup {c}
    /\ acquired' = [acquired EXCEPT ![c] = AcquiredReturn]
    /\ gpc' = [gpc EXCEPT ![c] = AfterAcquire(entry[c])]
    /\ waitFor' = [waitFor EXCEPT ![c] = "returned"]
    /\ UNCHANGED <<entry, released, chat_result, adapter_invoked, store_call_holding>>
    /\ UNCHANGED <<queueVars, loopVars, upsertVars, statsVars, agentVars>>

\* asyncio.TimeoutError while the semaphore is locked: return False.
AcquireTimeout(c) ==
    /\ gpc[c] = "waiting"
    /\ ~SemaphoreFree(gpu_semaphore)
    /\ acquired' = [acquired EXCEPT ![c] = "False"]
    /\ gpc' = [gpc EXCEPT ![c] = AfterAcquire(entry[c])]
    /\ waitFor' = [waitFor EXCEPT ![c] = "TimeoutError"]
    /\ UNCHANGED <<gpu_semaphore, resource_acquired_at, current_holder,
                   total_acquisitions, permitOwners, entry, released,
                   chat_result, adapter_invoked, store_call_holding>>
    /\ UNCHANGED <<queueVars, loopVars, upsertVars, statsVars, agentVars>>

\* release_resource as a function of the manager's state: it returns at once
\* when nothing is recorded as acquired; otherwise the metric call comes
\* before the reset of the tracking fields and the semaphore's release.
ReleaseOutcome ==
    IF resource_acquired_at = "None" THEN "returned_not_acquired"
    ELSE IF LogPerformanceMetric(ReleaseLogKwargs) = "TypeError" THEN "TypeError"
    ELSE "released"

ReleaseEffect(c, called) ==
    LET out == IF called THEN ReleaseOutcome ELSE "not_called"
    IN /\ released' = [released EXCEPT ![c] = out]
       /\ gpu_semaphore' = IF out = "released" THEN gpu_semaphore + 1 ELSE gpu_semaphore
       /\ resource_acquired_at' = IF out = "released" THEN "None" ELSE resource_acquired_at
       /\ current_holder' = IF out = "released" THEN "None" ELSE current_holder
       /\ permitOwners' = IF out = "released" THEN permitOwners \ {current_holder}
                          ELSE permitOwners

\* What _process_chat_request returns, as (success, error).
NoChatResult == [success |-> "None", error |-> "None"]

\* The results of chat_agent.process_chat: the response, or the error
\* response built for a UsageLimitExceeded (its "error" is str(e)).
AdapterResults ==
    { [success |-> "True", error |-> "None"],
      [success |-> "False", error |-> "str(e)"] }

\* The input_data of the request handed to _process_chat_request.
InputDataInputs == {"missing", "empty", "invalid_json"}

\* The results returned before the GPU is asked for.
InputDataError(k) ==
    [success |-> "False",
     error |-> CASE k = "missing" -> "Missing input_data field in request"
                 [] k = "empty" -> "Empty input_data field in request"
                 [] OTHER -> "Invalid JSON in input_data: ..."]

\* A body that takes every acquisition for a successful one.
GpuAcquiredIgnored(gpu_acquired) == TRUE

\* `if not gpu_acquired` is not taken.
GpuAcquired(gpu_acquired) == gpu_acquired = "True"

\* The body of `async with self._gpu_resource() as gpu_acquired`: the
\* timeout result, or the adapter's result.
ChatBody(gpu_acquired, adapter_result) ==
    IF ~GpuAcquired(gpu_acquired)
    THEN [result |-> [success |-> "False",
                      error |-> "GPU resource timeout - system overloaded"],
          process_chat |-> "not_called"]
    ELSE [result |-> adapter_result, process_chat |-> "called"]

\* _process_chat_request on a request whose input_data is missing, empty or
\* not JSON: it returns before the GPU is asked for.
ProcessChatRequestRejected(k) ==
    /\ gpc["dispatcher"] = "idle"
    /\ chat_result' = InputDataError(k)
    /\ UNCHANGED <<gpu_semaphore, resource_acquired_at, current_holder,
                   total_acquisitions, gpc, entry, acquired, released,
                   permitOwners, waitFor, adapter_invoked, store_call_holding>>
    /\ UNCHANGED <<queueVars, loopVars, upsertVars, statsVars, agentVars>>

\* The body of _gpu_resource / acquire_context ends (normally or by an
\* exception): finally: if acquired: release_resource(). The dispatcher's
\* body is the one of _process_chat_request, which returns its result.
ContextExit(c) ==
    /\ gpc[c] = "body"
    /\ ReleaseEffect(c, acquired[c] = "True")
    /\ gpc' = [gpc EXCEPT ![c] = "idle"]
    /\ \E adapter_result \in AdapterResults :
          LET body == ChatBody(acquired[c], adapter_result)
          IN IF c = "dispatcher"
             THEN /\ chat_result' = body.result
                  /\ adapter_invoked' = IF body.process_chat = "called" THEN "True"
                                        ELSE adapter_invoked
             ELSE UNCHANGED <<chat_result, adapter_invoked>>
    /\ UNCHANGED <<total_acquisitions, entry, acquired, waitFor, store_call_holding>>
    /\ UNCHANGED <<queueVars, loopVars, upsertVars, statsVars, agentVars>>

\* A direct call of release_resource.
ReleaseResource(c) ==
    /\ c # "dispatcher"
    /\ gpc[c] = "idle"
    /\ ReleaseEffect(c, TRUE)
    /\ UNCHANGED <<gpc, total_acquisitions, entry, acquired,
                   waitFor, chat_result, adapter_invoked, store_call_holding>>
    /\ UNCHANGED <<queueVars, loopVars, upsertVars, statsVars, agentVars>>

\* The dispatcher's next tick: _process_inference_request calls
\* get_next_request, which polls the store and updates the polled row.
DispatcherGetNextRequest ==
    /\ gpc["dispatcher"] = "idle"
    /\ store_call_holding' = IF "dispatcher" \in permitOwners THEN "True"
                             ELSE store_call_holding
    /\ UNCHANGED <<gpu_semaphore, resource_acquired_at, current_holder,
                   total_acquisitions, gpc, entry, acquired, released,
                   permitOwners, waitFor, chat_result, adapter_invoked>>
    /\ UNCHANGED <<queueVars, loopVars, upsertVars, statsVars, agentVars>>

GpuInit ==
    /\ gpu_semaphore = 1
    /\ resource_acquired_at = "None"
    /\ current_holder = "None"
    /\ total_acquisitions = 0
    /\ gpc = [c \in Callers |-> "idle"]
    /\ entry = [c \in Callers |-> "None"]
    /\ acquired = [c \in Callers |-> "None"]
    /\ released = [c \in Callers |-> "None"]
    /\ permitOwners = {}
    /\ waitFor = [c \in Callers |-> "None"]
    /\ chat_result = NoChatResult
    /\ adapter_invoked = "False"
    /\ store_call_holding = "False"

GpuNext ==
    \/ \E c \in Callers : \E e \in EntryPoints(c) : AcquireResource(c, e)
    \/ \E c \in Callers : SemaphoreAcquired(c)
    \/ \E c \in Callers : AcquireTimeout(c)
    \/ \E c \in Callers : ContextExit(c)
    \/ \E c \in Callers : ReleaseResource(c)
    \/ \E k \in InputDataInputs : ProcessChatRequestRejected(k)
    \/ DispatcherGetNextRequest

\* ==================================================== dispatcher main loop
\* InferenceService.start: the while self.running loop with its circuit
\* breaker, cut at its await points.
Min(a, b) == IF a < b THEN a ELSE b

\* How an awaited call of the cycle ends: it returns, or an Exception
\* propagates out of it.
CallOutcomes == {"returned", "raised"}

\* if self.stats["requests_processed"] % 100 == 0
HealthCheckDue(processed) == processed % 100 = 0

\* A delay that doubles with every error.
ErrorDelayExponential(errors) == Min(2 ^ errors, 30)

\* min(consecutive_errors * 2, 30)
ErrorDelay(errors) == Min(errors * 2, 30)

\* start(): self.running = True, consecutive_errors = 0, and the loop begins.
Start ==
    /\ lpc = "not_started"
    /\ ~running
    /\ running' = TRUE
    /\ consecutive_errors' = 0
    /\ lpc' = "while"
    /\ UNCHANGED <<error_delay, requests_processed, raisedRun, exitCause>>
    /\ UNCHANGED storeFailRun
    /\ UNCHANGED <<queueVars, gpuVars, upsertVars, statsVars, agentVars>>

\* while self.running: the loop ends when stop() has cleared the flag;
\* finally: self.running = False.
WhileRunning ==
    /\ lpc = "while"
    /\ lpc' = IF running THEN "process" ELSE "exited"
    /\ exitCause' = IF running THEN exitCause ELSE "stopped"
    /\ UNCHANGED <<running, consecutive_errors, error_delay, requests_processed, raisedRun>>
    /\ UNCHANGED storeFailRun
    /\ UNCHANGED <<queueVars, gpuVars, upsertVars, statsVars, agentVars>>

\* How the store operation of a cycle (poll, claim) ends.
StoreOutcomes == {"ok", "Exception"}

\* What get_next_request hands to the cycle: an exception of the store is
\* caught by its `except Exception`, which returns None; without one, a
\* claimed row is handed over as ClaimedReturn.
GetNextRequest(store, id) == IF store = "Exception" THEN None ELSE ClaimedReturn(id)

\* await self._process_inference_request(); when it returns:
\* consecutive_errors = 0, then the periodic health check is due or not.
\* No request is handed over (get_next_request), so the cycle ends at
\* `if not request: return` and requests_processed stays.
ProcessInferenceRequest(outcome, store) ==
    /\ lpc = "process"
    /\ \A id \in Ids : GetNextRequest(store, id) = None
    /\ storeFailRun' = IF store = "Exception" THEN Min(storeFailRun + 1, MaxStoreFailRun)
                       ELSE 0
    /\ consecutive_errors' = IF outcome = "returned" THEN 0 ELSE consecutive_errors
    /\ lpc' = IF outcome = "raised" THEN "except"
              ELSE IF HealthCheckDue(requests_processed) THEN "health"
              ELSE "sleep_poll"
    /\ raisedRun' = IF outcome = "returned" /\ ~HealthCheckDue(requests_processed)
                    THEN 0 ELSE raisedRun
    /\ UNCHANGED <<running, error_delay, requests_processed, exitCause>>
    /\ UNCHANGED <<queueVars, gpuVars, upsertVars, statsVars, agentVars>>

\* await self._log_health_metrics(), inside the same try block.
LogHealthMetrics(outcome) ==
    /\ lpc = "health"
    /\ lpc' = IF outcome = "raised" THEN "except" ELSE "sleep_poll"
    /\ raisedRun' = IF outcome = "raised" THEN raisedRun ELSE 0
    /\ UNCHANGED <<running, consecutive_errors, error_delay, requests_processed, exitCause>>
    /\ UNCHANGED storeFailRun
    /\ UNCHANGED <<queueVars, gpuVars, upsertVars, statsVars, agentVars>>

\* except Exception: count the error, compute the delay, and stop the
\* service when the counter has reached max_consecutive_errors.
ExceptHandler ==
    /\ lpc = "except"
    /\ LET errors == consecutive_errors + 1
           tripped == errors >= max_consecutive_errors
       IN /\ consecutive_errors' = errors
          /\ error_delay' = ErrorDelay(errors)
          /\ running' = IF tripped THEN FALSE ELSE running
          /\ lpc' = IF tripped THEN "exited" ELSE "sleep_error"
          /\ exitCause' = IF tripped THEN "breaker" ELSE exitCause
    /\ raisedRun' = Min(raisedRun + 1, MaxRaisedRun)
    /\ UNCHANGED requests_processed
    /\ UNCHANGED storeFailRun
    /\ UNCHANGED <<queueVars, gpuVars, upsertVars, statsVars, agentVars>>

\* await asyncio.sleep(error_delay)
SleepErrorDelay ==
    /\ lpc = "sleep_error"
    /\ lpc' = "sleep_poll"
    /\ UNCHANGED <<running, consecutive_errors, error_delay, requests_processed,
                   raisedRun, exitCause>>
    /\ UNCHANGED storeFailRun
    /\ UNCHANGED <<queueVars, gpuVars, upsertVars, statsVars, agentVars>>

\* await asyncio.sleep(poll_interval_seconds), the end of the cycle.
SleepPollInterval ==
    /\ lpc = "sleep_poll"
    /\ lpc' = "while"
    /\ UNCHANGED <<running, consecutive_errors, error_delay, requests_processed,
                   raisedRun, exitCause>>
    /\ UNCHANGED storeFailRun
    /\ UNCHANGED <<queueVars, gpuVars, upsertVars, statsVars, agentVars>>

\* stop(), called from outside while the loop runs: self.running = False
\* (gpu_manager.cleanup() finds nothing acquired here).
Stop ==
    /\ lpc \notin {"not_started", "exited"}
    /\ running' = FALSE
    /\ UNCHANGED <<lpc, consecutive_errors, error_delay, requests_processed,
                   raisedRun, exitCause>>
    /\ UNCHANGED storeFailRun
    /\ UNCHANGED <<queueVars, gpuVars, upsertVars, statsVars, agentVars>>

\* The task is cancelled at an await point: CancelledError is not an
\* Exception, it leaves the loop; finally: self.running = False.
Cancelled ==
    /\ lpc \in {"process", "health", "sleep_error", "sleep_poll"}
    /\ lpc' = "exited"
    /\ exitCause' = "cancelled"
    /\ running' = FALSE
    /\ UNCHANGED <<consecutive_errors, error_delay, requests_processed, raisedRun>>
    /\ UNCHANGED storeFailRun
    /\ UNCHANGED <<queueVars, gpuVars, upsertVars, statsVars, agentVars>>

LoopInit ==
    /\ running = FALSE
    /\ lpc = "not_started"
    /\ consecutive_errors = 0
    /\ error_delay = 0
    /\ requests_processed = 0
    /\ raisedRun = 0
    /\ storeFailRun = 0
    /\ exitCause = "None"

LoopNext ==
    \/ Start
    \/ WhileRunning
    \/ \E outcome \in CallOutcomes, store \in StoreOutcomes :
          ProcessInferenceRequest(outcome, store)
    \/ \E outcome \in CallOutcomes : LogHealthMetrics(outcome)
    \/ ExceptHandler
    \/ SleepErrorDelay
    \/ SleepPollInterval
    \/ Stop
    \/ Cancelled

\* ===================================================== side-effect tables
\* create_user_if_not_exists, create_custom_gpt_if_not_exists and
\* create_thread_if_not_exists of the worker-side DatabaseAdapter, each a
\* SELECT followed by an INSERT on its own connection.
Tables == {"users", "custom_gpts", "threads"}

NoRef == "-"

\* What the callers pass: one id per table, two different payloads (email,
\* name or title), and the rows the new row refers to.
UpsertInputs ==
    [table : {"users"}, id : {"u1"}, data : {"a", "b"},
     user_id : {NoRef}, custom_gpt_id : {NoRef}]
    \cup [table : {"custom_gpts"}, id : {"g1"}, data : {"a", "b"},
          user_id : {"u1"}, custom_gpt_id : {NoRef}]
    \cup [table : {"threads"}, id : {"t1"}, data : {"a", "b"},
          user_id : {"u1"}, custom_gpt_id : {"g1"}]

NoCall == [table |-> "None", id |-> "None", data |-> "None",
           user_id |-> NoRef, custom_gpt_id |-> NoRef, existing |-> FALSE]

NoResult == [table |-> "None", id |-> "None", returned |-> "None", why |-> "None"]

RowsWithId(t, id) == {row \in tables[t] : row.id = id}

\* SELECT id FROM <table> WHERE id = ? ; fetchone()
SelectExisting(t, id) == RowsWithId(t, id) # {}

\* A table without the primary key constraint.
PrimaryKeyUnchecked(t, id) == TRUE

\* id = Column(String, primary_key=True): an INSERT of a present id is
\* rejected.
PrimaryKeyFree(t, id) == RowsWithId(t, id) = {}

\* ForeignKey('users.id') / ForeignKey('custom_gpts.id') with
\* PRAGMA foreign_keys = ON: the referenced rows must exist.
ForeignKeysHold(a) ==
    /\ a.user_id # NoRef => RowsWithId("users", a.user_id) # {}
    /\ a.custom_gpt_id # NoRef => RowsWithId("custom_gpts", a.custom_gpt_id) # {}

\* How the INSERT of a call ends.
InsertOutcome(a) ==
    IF ~PrimaryKeyFree(a.table, a.id) THEN "primary_key"
    ELSE IF ~ForeignKeysHold(a) THEN "foreign_key"
    ELSE "inserted"

InsertedRow(a, rowid) ==
    [rowid |-> rowid, table |-> a.table, id |-> a.id, data |-> a.data,
     user_id |-> a.user_id, custom_gpt_id |-> a.custom_gpt_id]

\* A worker starts a create_*_if_not_exists call and runs its SELECT.
UpsertSelect(w, a) ==
    /\ ucall[w] = NoCall
    /\ ucall' = [ucall EXCEPT ![w] =
                   [table |-> a.table, id |-> a.id, data |-> a.data,
                    user_id |-> a.user_id, custom_gpt_id |-> a.custom_gpt_id,
                    existing |-> SelectExisting(a.table, a.id)]]
    /\ UNCHANGED <<tables, nextRowid, uresult, succeeded, finished, createdRows>>
    /\ UNCHANGED <<queueVars, gpuVars, loopVars, statsVars, agentVars>>

\* The rest of the call: return True for an existing row; otherwise INSERT
\* and commit, return True, or return False from `except Exception` when the
\* INSERT was rejected.
UpsertInsert(w) ==
    /\ ucall[w] # NoCall
    /\ nextRowid <= MaxRows
    /\ LET a == ucall[w]
           out == IF a.existing THEN "exists" ELSE InsertOutcome(a)
           ret == IF out \in {"exists", "inserted"} THEN "True" ELSE "False"
           new == IF out = "inserted" THEN {InsertedRow(a, nextRowid)} ELSE {}
       IN /\ tables' = [tables EXCEPT ![a.table] = @ \cup new]
          /\ createdRows' = createdRows \cup new
          /\ nextRowid' = IF out = "inserted" THEN nextRowid + 1 ELSE nextRowid
          /\ uresult' = [uresult EXCEPT ![w] =
                           [table |-> a.table, id |-> a.id, returned |-> ret, why |-> out]]
          /\ succeeded' = IF ret = "True" THEN succeeded \cup {<<a.table, a.id>>}
                          ELSE succeeded
          /\ finished' = finished \cup {<<a.table, a.id>>}
    /\ ucall' = [ucall EXCEPT ![w] = NoCall]
    /\ UNCHANGED <<queueVars, gpuVars, loopVars, statsVars, agentVars>>

UpsertInit ==
    /\ tables = [t \in Tables |-> {}]
    /\ nextRowid = 1
    /\ ucall = [w \in Workers |-> NoCall]
    /\ uresult = [w \in Workers |-> NoResult]
    /\ succeeded = {}
    /\ finished = {}
    /\ createdRows = {}

UpsertNext ==
    \/ \E w \in Workers, a \in UpsertInputs : UpsertSelect(w, a)
    \/ \E w \in Workers : UpsertInsert(w)

\* ================================================= queue statistics cache
\* The tasks of one inference process that call get_queue_statistics.
StatsCallers == {"s1", "s2"}

\* How far the clock moves between two steps.
ClockSteps == {15}

\* The snapshot get_queue_stats reads from the store at time t.
Snapshot(t) == [read_at |-> t]

\* A validity test that still accepts a cache of exactly the ttl's age.
CacheValidInclusive(t, updated, cache) == (t - updated) <= cache_ttl /\ cache # None

\* (now - self._cache_updated) < self._cache_ttl and self._stats_cache
CacheValid(t, updated, cache) == (t - updated) < cache_ttl /\ cache # None

NoStats == [kind |-> "None", read_at |-> 0, since |-> 0, at |-> 0]

\* get_queue_statistics up to its await: now = utcnow(); a valid cache is
\* returned, otherwise the call goes on to self.db.get_queue_stats().
GetQueueStatistics(c) ==
    /\ spc[c] = "idle"
    /\ IF CacheValid(clock, cache_updated, stats_cache)
       THEN /\ lastStats' = [kind |-> "cached", read_at |-> The(stats_cache).read_at,
                             since |-> clock, at |-> clock]
            /\ UNCHANGED <<spc, call_now>>
       ELSE /\ spc' = [spc EXCEPT ![c] = "get_queue_stats"]
            /\ call_now' = [call_now EXCEPT ![c] = clock]
            /\ UNCHANGED lastStats
    /\ UNCHANGED <<clock, stats_cache, cache_updated, fetched>>
    /\ UNCHANGED <<queueVars, gpuVars, loopVars, upsertVars, agentVars>>

\* self.db.get_queue_stats() reads the store, or raises: except Exception
\* returns {} and leaves the cache as it is.
GetQueueStats(c, outcome) ==
    /\ spc[c] = "get_queue_stats"
    /\ IF outcome = "returned"
       THEN /\ fetched' = [fetched EXCEPT ![c] = Some(Snapshot(clock))]
            /\ spc' = [spc EXCEPT ![c] = "update"]
            /\ UNCHANGED lastStats
       ELSE /\ spc' = [spc EXCEPT ![c] = "idle"]
            /\ lastStats' = [kind |-> "empty", read_at |-> clock,
                             since |-> call_now[c], at |-> clock]
            /\ UNCHANGED fetched
    /\ UNCHANGED <<clock, stats_cache, cache_updated, call_now>>
    /\ UNCHANGED <<queueVars, gpuVars, loopVars, upsertVars, agentVars>>

\* The call resumes after the await: self._stats_cache = stats,
\* self._cache_updated = now (the `now` taken before the read), return stats.
UpdateCache(c) ==
    /\ spc[c] = "update"
    /\ stats_cache' = fetched[c]
    /\ cache_updated' = call_now[c]
    /\ lastStats' = [kind |-> "fresh", read_at |-> The(fetched[c]).read_at,
                     since |-> call_now[c], at |-> clock]
    /\ spc' = [spc EXCEPT ![c] = "idle"]
    /\ fetched' = [fetched EXCEPT ![c] = None]
    /\ UNCHANGED <<clock, call_now>>
    /\ UNCHANGED <<queueVars, gpuVars, loopVars, upsertVars, agentVars>>

\* Time passes.
ClockTick(d) ==
    /\ clock + d <= MaxClock
    /\ clock' = clock + d
    /\ UNCHANGED <<stats_cache, cache_updated, spc, call_now, fetched, lastStats>>
    /\ UNCHANGED <<queueVars, gpuVars, loopVars, upsertVars, agentVars>>

\* __init__: self._stats_cache = {}, self._cache_updated = utcnow().
StatsInit ==
    /\ clock = 0
    /\ stats_cache = None
    /\ cache_updated = 0
    /\ spc = [c \in StatsCallers |-> "idle"]
    /\ call_now = [c \in StatsCallers |-> 0]
    /\ fetched = [c \in StatsCallers |-> None]
    /\ lastStats = NoStats

StatsNext ==
    \/ \E c \in StatsCallers : GetQueueStatistics(c)
    \/ \E c \in StatsCallers, outcome \in CallOutcomes : GetQueueStats(c, outcome)
    \/ \E c \in StatsCallers : UpdateCache(c)
    \/ \E d \in ClockSteps : ClockTick(d)

\* ============================================================ chat agent
\* The words a model output is made of here, and the specializations a
\* custom GPT may name.
Words == {"Guaranteed", "guaranteed", "returns", "risk-free", "safe"}

Contents == UNION {[1..n -> Words] : n \in 0..MaxWords}

Specializations == {"general", "compliance", "crm", "portfolio", "other"}

\* str.lower()
Lower(w) == IF w = "Guaranteed" THEN "guaranteed" ELSE w

LowerContent(content) == [i \in 1..Len(content) |-> Lower(content[i])]

\* phrase in content
ContainsPhrase(content, phrase) ==
    \E i \in 1..(Len(content) - Len(phrase) + 1) :
        SubSeq(content, i, i + Len(phrase) - 1) = phrase

\* _calculate_confidence_score, in hundredths.
CalculateConfidenceScore(specialization) ==
    IF specialization = "compliance" THEN 75
    ELSE IF specialization \in {"crm", "portfolio"} THEN 80
    ELSE 85

\* _check_sec_compliance
CheckSecCompliance(content, specialization) ==
    LET lowered == LowerContent(content)
    IN IF ContainsPhrase(lowered, <<"guaranteed", "returns">>)
          \/ ContainsPhrase(lowered, <<"risk-free">>)
       THEN FALSE
       ELSE TRUE

\* confidence_score < 0.7 or specialization == "compliance"
HumanReviewRequired(confidence_score, specialization) ==
    confidence_score < 70 \/ specialization = "compliance"

ComplianceFlags(sec_compliant, human_review_required, confidence_score) ==
    (IF ~sec_compliant THEN {"SEC_NON_COMPLIANT"} ELSE {})
    \cup (IF human_review_required THEN {"HUMAN_REVIEW_REQUIRED"} ELSE {})
    \cup (IF confidence_score < 50 THEN {"LOW_CONFIDENCE"} ELSE {})

\* The response built when agent.run returned `content`.
Response(specialization, content) ==
    LET confidence_score == CalculateConfidenceScore(specialization)
        sec_compliant == CheckSecCompliance(content, specialization)
        human_review_required == HumanReviewRequired(confidence_score, specialization)
    IN [success |-> TRUE, specialization |-> specialization, output |-> content,
        content |-> content, confidence_score |-> confidence_score,
        sec_compliant |-> sec_compliant,
        human_review_required |-> human_review_required,
        compliance_flags |-> ComplianceFlags(sec_compliant, human_review_required,
                                             confidence_score)]

\* The response built in `except Exception` when agent.run raised.
ErrorResponse(specialization, content) ==
    [success |-> FALSE, specialization |-> specialization, output |-> content,
     content |-> <<"error_message">>, confidence_score |-> 0,
     sec_compliant |-> FALSE, human_review_required |-> TRUE,
     compliance_flags |-> {"ERROR", "HUMAN_REVIEW_REQUIRED"}]

\* process_chat: agent.run returns the model's output or raises.
ProcessChat(specialization, content, outcome) ==
    /\ chat_response' = Some(IF outcome = "returned"
                             THEN Response(specialization, content)
                             ELSE ErrorResponse(specialization, content))
    /\ UNCHANGED <<queueVars, gpuVars, loopVars, upsertVars, statsVars>>

AgentInit == chat_response = None

AgentNext ==
    \E specialization \in Specializations, content \in Contents,
       outcome \in CallOutcomes :
        ProcessChat(specialization, content, outcome)

\* ======================================================== specifications
vars == <<queueVars, gpuVars, loopVars, upsertVars, statsVars, agentVars>>

Init == QueueInit /\ GpuInit /\ LoopInit /\ UpsertInit /\ StatsInit /\ AgentInit

Spec == Init /\ [][QueueNext]_vars

GpuSpec == Init /\ [][GpuNext]_vars

LoopSpec == Init /\ [][LoopNext]_vars

UpsertSpec == Init /\ [][UpsertNext]_vars

StatsSpec == Init /\ [][StatsNext]_vars

AgentSpec == Init /\ [][AgentNext]_vars

\* The dispatcher loop of every worker process keeps calling
\* _process_inference_request (while self.running), so a poll or a claim that
\* can be made is made.
FairSpec ==
    Spec /\ \A w \in Workers : WF_vars(PollRow(w)) /\ WF_vars(ClaimPolled(w))

\* ================================================================== claims

\* ---- C1 ----------------------------------------------------------------
\* The rows that have left 'pending': inserted rows that are now in another
\* status or were deleted.
LeftPending == {r \in Inserted : queue[r].status # "pending"}

SumWins[n \in 0..MaxRequests] == IF n = 0 THEN 0 ELSE claimWins[n] + SumWins[n - 1]

\* C1 (claim uniqueness): with several workers polling and claiming
\* concurrently, no row is claimed twice (at most one claim call per row
\* returns success), and the number of rows that have left 'pending' equals
\* the number of claim calls that returned success.
Claim_C1_ClaimUniqueness ==
    /\ \A r \in Ids : claimWins[r] <= 1
    /\ Cardinality(LeftPending) = SumWins[MaxRequests]

\* Two workers polled the same row; one has claimed it and the other is
\* about to run its UPDATE on the row that is no longer pending.
Witness_C1_Race ==
    \E r \in Ids :
        /\ claimWins[r] = 1
        /\ queue[r].status = "processing"
        /\ \E w \in Workers : wpc[w] = "polled" /\ polled[w] = Some(r)

\* ---- C2 ----------------------------------------------------------------
\* Ids are handed out in insertion order, so a < b says a was inserted first.
\* (priority_A, insertion_A) < (priority_B, insertion_B)
BeforeInQueue(a, b) ==
    \/ queue[a].priority < queue[b].priority
    \/ queue[a].priority = queue[b].priority /\ a < b

\* C2 (priority order): the row a worker's poll picks for claiming has no
\* other pending row before it in (priority, insertion order): a lower
\* priority value overtakes, and rows of equal priority are started in
\* insertion order, whichever enqueue path inserted them.
Claim_C2_PriorityOrder ==
    [][\A w \in Workers :
          (wpc[w] = "idle" /\ wpc'[w] = "polled")
          => \A o \in PendingIds(queue) : ~BeforeInQueue(o, The(polled'[w]))]_vars

\* ---- C3 ----------------------------------------------------------------
StatusEdges == {<<"absent", "pending">>, <<"pending", "processing">>,
                <<"processing", "completed">>, <<"processing", "failed">>}

\* C3 (terminal monotonicity): over any sequence of enqueue, claim, complete
\* and cleanup operations, a row's status changes only along
\* pending->processing and processing->completed|failed; a row is inserted as
\* pending, never leaves completed or failed for another status, never goes
\* back to pending and never goes from pending straight to a terminal status.
\* (A delete by cleanup removes the row; it is no change of status.)
Claim_C3_TerminalMonotonicity ==
    [][\A r \in Ids :
          \/ queue'[r].status = queue[r].status
          \/ <<queue[r].status, queue'[r].status>> \in StatusEdges
          \/ queue[r].status # "absent" /\ queue'[r].status = "absent"]_vars

\* A row has run through both edges, and a complete call can still be made
\* on it.
Witness_C3_TerminalRow ==
    \E r \in Ids : queue[r].status \in Terminal /\ queue[r].started_at # NULL

\* ---- C4 ----------------------------------------------------------------
\* C4 (round trip): an enqueued chat request whose adapter call returns a
\* valid output (here every call would: content "content" with its metadata)
\* eventually is 'completed' with response_content equal to the adapter's
\* content and response_metadata holding the adapter's metadata fields.
Claim_C4_RoundTrip ==
    \A r \in Ids :
        (queue[r].status = "pending" /\ queue[r].request_type = "chat")
        ~> (/\ queue[r].status = "completed"
            /\ queue[r].response_content = SomeData.content
            /\ queue[r].response_metadata = SomeData.metadata)

\* ---- C7 ----------------------------------------------------------------
\* C7 (retention safety): a cleanup deletes only rows that are completed or
\* failed and were created earlier than the cutoff (now - days_old), never a
\* pending or processing row, and returns the number of rows it deleted.
Claim_C7_RetentionSafety ==
    [][LET gone == {r \in Ids : queue[r].status # "absent" /\ queue'[r].status = "absent"}
       IN gone # {} =>
            /\ \A r \in gone :
                  /\ queue[r].status \in Terminal
                  /\ TimeLess(ParseTime(queue[r].created_at),
                              CutoffDate(now, lastCleanup'.days_old))
            /\ lastCleanup'.returned = Cardinality(gone)]_vars

\* ---- C5 ----------------------------------------------------------------
\* C5 (arbiter mutual exclusion): in every state of one process at most one
\* caller holds the GPU permit, and an acquire_resource call returns success
\* only if no other caller holds the permit at that moment (a second acquire
\* issued while the permit is held does not succeed before a release).
Claim_C5_MutualExclusion ==
    [][/\ Cardinality(permitOwners') <= 1
       /\ gpu_semaphore' = 1 - Cardinality(permitOwners')
       /\ \A c \in Callers :
             (acquired[c] # "True" /\ acquired'[c] = "True")
             => permitOwners \ {c} = {}]_vars

\* One caller holds the permit and a second caller's acquire_resource, issued
\* while it was held, has returned without success.
Witness_C5_SecondAcquireRefused ==
    \E c, d \in Callers :
        /\ c # d
        /\ permitOwners = {c}
        /\ acquired[d] = "False"
        /\ gpc[d] # "waiting"

\* ---- C6 ----------------------------------------------------------------
\* C6 (acquire/release pairing): whenever the dispatcher is outside its
\* _gpu_resource block (the request's processing has ended and the next tick
\* may start), the dispatcher does not hold the GPU permit: every permit it
\* obtained was returned on the way out.
Claim_C6_AcquireReleasePairing ==
    gpc["dispatcher"] = "idle" => "dispatcher" \notin permitOwners

\* ---- C8 ----------------------------------------------------------------
\* C8 (circuit breaker): the loop is ended by the breaker only after 5
\* cycles in a row have raised; once 5 cycles in a row have raised the loop
\* has ended; and a cycle that finished without an exception leaves the
\* consecutive-error counter at zero.
Claim_C8_CircuitBreaker ==
    /\ exitCause = "breaker" => raisedRun >= max_consecutive_errors
    /\ raisedRun >= max_consecutive_errors => lpc = "exited"
    /\ (lpc = "sleep_poll" /\ raisedRun = 0) => consecutive_errors = 0

\* ---- C10 ---------------------------------------------------------------
\* C10 as stated (idempotent upsert): once a create_*_if_not_exists call for
\* an id has returned, the table holds exactly one row for that id.
Claim_C10_ExactlyOneRow ==
    \A k \in finished : Cardinality(RowsWithId(k[1], k[2])) = 1

\* C10, amended: for any interleaving of create_*_if_not_exists calls with the
\* same id the table holds at most one row for that id, exactly one once a
\* call for it has returned True, and no row once inserted is modified or
\* removed by a later call (a call whose INSERT is rejected returns False and
\* adds nothing).
Claim_C10_AtMostOneRow ==
    /\ \A a \in UpsertInputs : Cardinality(RowsWithId(a.table, a.id)) <= 1
    /\ \A k \in succeeded : Cardinality(RowsWithId(k[1], k[2])) = 1
    /\ \A row \in createdRows : row \in tables[row.table]
    /\ \A w \in Workers :
          uresult[w].returned = "False" => uresult[w].why \in {"primary_key", "foreign_key"}

\* Two calls for the same id with different payloads raced past their
\* SELECTs: one inserted its row, the other's INSERT was rejected on the
\* primary key, and the row of the first is in the table.
Witness_C10_RacedInsert ==
    \E w \in Workers :
        /\ uresult[w].why = "primary_key"
        /\ \E row \in tables[uresult[w].table] : row.id = uresult[w].id
        /\ <<uresult[w].table, uresult[w].id>> \in succeeded

\* ---- C11 ---------------------------------------------------------------
\* C11 (at most one in-flight processing per request): with several workers
\* sharing the store, at most one worker goes on to process a given request
\* id, and a worker holds a request (and so may call the inference adapter
\* for it) only if its own claim of that id succeeded.
Claim_C11_OneInFlight ==
    /\ \A r \in Ids : Cardinality(passedClaim[r]) <= 1
    /\ \A w \in Workers :
          request[w] # None => w \in passedClaim[The(request[w])]
    /\ \A w \in Workers :
          wpc[w] = "processing" => request[w] # None

\* One worker won the claim of a row that a second worker has polled too:
\* the second worker's claim is about to be refused.
Witness_C11_Contended ==
    \E r \in Ids : \E w, v \in Workers :
        /\ w # v
        /\ passedClaim[r] = {w}
        /\ wpc[v] = "polled"
        /\ polled[v] = Some(r)

\* ---- C12 ---------------------------------------------------------------
\* C12 (no lost request): with live workers that keep polling and claiming
\* (no worker crash), every claimed request eventually reaches completed or
\* failed; it does not stay in processing for ever.
Claim_C12_NoLostRequest ==
    \A r \in Ids :
        (queue[r].status = "processing") ~> (queue[r].status # "processing")

\* ---- C13 ---------------------------------------------------------------
\* C13 (completion is a no-op off processing): a complete call on a row that
\* is pending, completed, failed or missing returns False and changes no
\* row; a complete call on a processing row returns True, so the two results
\* differ.
Claim_C13_CompleteNoOp ==
    [][lastComplete' # lastComplete =>
         LET id == lastComplete'.id
         IN /\ lastComplete'.returned = (IF queue[id].status = "processing" THEN "True" ELSE "False")
            /\ queue[id].status # "processing" => queue' = queue]_vars

\* A second complete call on a row that a first call completed with content
\* has returned False, and the first outcome is still in the row.
Witness_C13_SecondComplete ==
    /\ lastComplete.returned = "False"
    /\ lastComplete.id \in Ids
    /\ queue[lastComplete.id].status = "completed"
    /\ queue[lastComplete.id].response_content = SomeData.content

\* ---- C18 ---------------------------------------------------------------
\* C18 (claim retry): when a worker's claim of the polled row affects zero
\* rows, get_next_request gives up without a request only if no pending row
\* is left to try.
Claim_C18_ClaimRetry ==
    [][\A w \in Workers :
          (/\ wpc[w] = "polled"
           /\ wpc'[w] = "idle"
           /\ ~ClaimMatches(queue[The(polled[w])]))
          => PendingIds(queue) = {}]_vars

Claim_C17_ReleaseWithoutHoldRaises ==
    \A c \in Callers : released[c] # "returned_not_acquired"

\* ---- C20 ---------------------------------------------------------------
\* C20 (a store failure reaches the circuit breaker): once the store has
\* failed in 5 cycles in a row, the fifth failure is on its way to the
\* except block or the loop has ended.
Claim_C20_StoreFailureTripsBreaker ==
    storeFailRun >= max_consecutive_errors => lpc \in {"except", "exited"}

\* ---- C21 ---------------------------------------------------------------
\* C21 (priority range): whatever integer priority an insert is called with,
\* every row that enters the queue is pending and has a priority in [1,10].
Claim_C21_PriorityRange ==
    [][\A r \in Ids :
          (queue[r].status = "absent" /\ queue'[r].status # "absent")
          => (queue'[r].status = "pending" /\ queue'[r].priority \in 1..10)]_vars

\* ---- C27 ---------------------------------------------------------------
RowFieldsHold(row) ==
    /\ row.status = "processing" => (row.started_at # NULL /\ row.completed_at = NULL)
    /\ row.status \in {"pending", "processing"}
       => /\ row.response_content = NULL
          /\ row.response_metadata = NULL
          /\ row.error_message = NULL

OutcomeFields(row) ==
    <<row.completed_at, row.response_content, row.response_metadata, row.error_message>>

\* C27 (row field invariant): every row in processing has started_at set and
\* completed_at unset, every row in pending or processing has no response
\* content, response metadata or error message, and a step changes these
\* fields or completed_at of a row only when it moves that row from
\* processing to completed or failed.
Claim_C27_RowFields ==
    [][\A r \in Ids :
          /\ queue'[r].status # "absent" => RowFieldsHold(queue'[r])
          /\ (/\ queue[r].status # "absent"
              /\ queue'[r].status # "absent"
              /\ OutcomeFields(queue'[r]) # OutcomeFields(queue[r]))
             => (queue[r].status = "processing" /\ queue'[r].status \in Terminal)]_vars

\* One row is in processing with its started_at, while another row has
\* reached completed with its content and completed_at written.
Witness_C27_ProcessingAndTerminal ==
    \E r, o \in Ids :
        /\ queue[r].status = "processing"
        /\ queue[r].started_at # NULL
        /\ queue[o].status = "completed"
        /\ queue[o].completed_at # NULL
        /\ queue[o].response_content = SomeData.content

\* ---- C22 ---------------------------------------------------------------
\* C22 (prohibited-phrase compliance): for every specialization, a response
\* whose content contains "guaranteed returns" or "risk-free" has
\* sec_compliant false, human_review_required true, and both
\* SEC_NON_COMPLIANT and HUMAN_REVIEW_REQUIRED among its compliance flags.
Claim_C22_ProhibitedPhrase ==
    \A r \in chat_response :
        (/\ r.success
         /\ \/ ContainsPhrase(r.content, <<"guaranteed", "returns">>)
            \/ ContainsPhrase(r.content, <<"risk-free">>))
        => /\ ~r.sec_compliant
           /\ r.human_review_required
           /\ {"SEC_NON_COMPLIANT", "HUMAN_REVIEW_REQUIRED"} \subseteq r.compliance_flags

\* ---- C24 ---------------------------------------------------------------
\* C24 (stats cache staleness bound): what get_queue_statistics returns was
\* read from the store during the call, or is a cached snapshot read from
\* the store less than 30 seconds before the call returns it.
Claim_C24_StalenessBound ==
    /\ lastStats.kind = "cached" => lastStats.at - lastStats.read_at < cache_ttl
    /\ lastStats.kind = "fresh"
       => (lastStats.since <= lastStats.read_at /\ lastStats.read_at <= lastStats.at)

\* A call has returned a cached snapshot that was read from the store some
\* time before, by another call.
Witness_C24_AgedCache ==
    /\ lastStats.kind = "cached"
    /\ lastStats.at - lastStats.read_at > 0

\* ---- C26 ---------------------------------------------------------------
\* C26 (empty-queue idle): when no row is pending, a worker's poll finds
\* nothing, get_next_request hands over no request, and the tick changes
\* nothing: no queue row, no user, custom GPT or thread row, no GPU permit
\* and no request counter.
Claim_C26_EmptyQueueIdle ==
    [][(/\ PendingIds(queue) = {}
        /\ \/ lastPoll' # lastPoll
           \/ \E w \in Workers : wpc[w] = "idle" /\ wpc'[w] # "idle")
       => /\ lastPoll' = "empty"
          /\ \A w \in Workers : request'[w] = None
          /\ UNCHANGED <<queue, wpc, polled, claimWins, passedClaim>>
          /\ UNCHANGED <<tables, createdRows>>
          /\ UNCHANGED <<gpu_semaphore, permitOwners, total_acquisitions>>
          /\ UNCHANGED requests_processed]_vars

\* A poll has found nothing although the queue has rows: none of them is
\* pending.
Witness_C26_NothingPending ==
    /\ lastPoll = "empty"
    /\ PendingIds(queue) = {}
    /\ \E r \in Ids : queue[r].status = "processing"

\* ---- C23 ---------------------------------------------------------------
\* C23 (graceful shutdown): a stop or a cancellation ends the loop only
\* between ticks (at the loop test or in one of its sleeps), never while the
\* tick's _process_inference_request or health log is under way.
Claim_C23_GracefulShutdown ==
    [][(/\ lpc # "exited"
        /\ lpc' = "exited"
        /\ exitCause' \in {"stopped", "cancelled"})
       => lpc \in {"while", "sleep_error", "sleep_poll"}]_vars

\* ---- C29 ---------------------------------------------------------------
\* C29 (locking discipline): the dispatcher never makes a store call (a
\* queue poll or update among them) while it holds the GPU permit.
Claim_C29_LockingDiscipline ==
    store_call_holding = "False"

Claim_C34_UpsertResult ==
    [][\A w \in Workers :
          (ucall[w] # NoCall /\ ucall'[w] = NoCall) =>
             (uresult'[w].returned = "True"
                <=> \E row \in tables'[ucall[w].table] : row.id = ucall[w].id)]_vars

\* ---- C35 ---------------------------------------------------------------
\* C35 (arbiter accounting): the current holder and the usage start time are
\* set exactly while the permit is held, and total_acquisitions counts the
\* acquire_resource calls that have returned True: it starts at zero and
\* every step adds to it the number of calls that return True in that step.
Claim_C35_ArbiterAccounting ==
    [][/\ (current_holder' # "None") <=> (gpu_semaphore' = 0)
       /\ (resource_acquired_at' # "None") <=> (gpu_semaphore' = 0)
       /\ total_acquisitions' = total_acquisitions +
             Cardinality({c \in Callers :
                             acquired[c] = "None" /\ acquired'[c] = "True"})]_vars

\* ---- C36 ---------------------------------------------------------------
\* C36 (claim handover): a get_next_request call that moves a row from
\* pending to processing returns that row's request to its dispatcher, which
\* goes on to process it; the call never returns without a request after
\* having claimed a row.
Claim_C36_ClaimHandover ==
    [][\A w \in Workers : \A r \in Ids :
          (/\ wpc[w] = "polled"
           /\ polled[w] = Some(r)
           /\ wpc'[w] # "polled"
           /\ queue[r].status = "pending"
           /\ queue'[r].status = "processing")
          => (request'[w] = Some(r) /\ wpc'[w] = "processing")]_vars

\* ---- C37 ---------------------------------------------------------------
\* C37 (acquire result matches the permit): an acquire_resource call returns
\* True exactly when it took the permit, and a call that returns False has
\* left the permit and its accounting fields as they were before the call.
Claim_C37_AcquireResultMatchesPermit ==
    [][\A c \in Callers :
          (gpc[c] = "waiting" /\ gpc'[c] # "waiting") =>
             /\ (acquired'[c] = "True") <=> (gpu_semaphore' = gpu_semaphore - 1)
             /\ acquired'[c] = "False" =>
                   UNCHANGED <<gpu_semaphore, resource_acquired_at,
                               current_holder, total_acquisitions>>]_vars
====
